---- MODULE Spec2Model ----
(***************************************************************************)
(* Model of the analytical core of the OpenAlex Streamlit app (src/app.py):*)
(* calculate_academic_age (sustained-activity estimator and its confidence *)
(* score) and calculate_author_metrics (citation-distribution metrics).    *)
(*                                                                         *)
(* Conventions                                                             *)
(*  - Python's None is the integer None (-1); a work without the key       *)
(*    'publication_year' holds Missing (-2), which .get() reads as None    *)
(*    or as the default it is given.                                       *)
(*  - Scores in [0,1] are kept in tenths (1.0 is 10, 0.5 is 5), so that    *)
(*    score * weight * 100 is the integer score_tenths * weight_tenths.    *)
(*  - One-decimal values are kept in tenths (56.2 is 562), three-decimal   *)
(*    values in thousandths (0.8 is 800).                                  *)
(***************************************************************************)
EXTENDS Integers, Sequences, FiniteSets, TLC

VARIABLES
    author,        \* the author dictionary handed to calculate_academic_age
    fetched,       \* what fetch_author_works answers for this author
    current_year,  \* datetime.now().year
    pc,            \* "start" before the call, "done" after it
    age_data,      \* the dictionary calculate_academic_age returned
    confidence_components, \* its local list of (name, score, weight), scores in tenths
    metrics,       \* what calculate_author_metrics returned, or that it raised
    previous,      \* the answer and the results of the search before this one
    fetch_call     \* a call of fetch_author_works followed page by page: its
                   \* position, its locals page, all_works and data, and the
                   \* number of requests it has issued

vars == <<author, fetched, current_year, pc, age_data, confidence_components,
          metrics, previous, fetch_call>>

\* Python's None, and the mark of a key that the dictionary does not hold.
None == -1
Missing == -2

\* Bounds of the input space.
MaxBlocks == 2
MaxCopies == 10
MaxPageLen == 2

\* Program constants.
MaxPage == 50
MinYear == 1900
WindowLen == 3
SustainedThreshold == 2
EarlyPeriod == 5
RecentYears == 5
TopShare == 10
MinWorksForTopic == 5
TopAuthorConcepts == 10
EarlyWorksSample == 10
ConceptsPerWork == 5
OverlapNorm == 5
HighThreshold == 80
MediumThreshold == 60

(***************************************************************************)
(* Helpers on sequences                                                    *)
(***************************************************************************)
Min(S) == CHOOSE x \in S : \A y \in S : x <= y

\* Python's seq[:n]
Take(s, n) == SubSeq(s, 1, IF Len(s) < n THEN Len(s) ELSE n)

\* Python's sum(s)
RECURSIVE SumSeq(_)
SumSeq(s) == IF s = <<>> THEN 0 ELSE s[1] + SumSeq(Tail(s))

RECURSIVE Repeat(_, _)
Repeat(w, n) == IF n = 0 THEN <<>> ELSE <<w>> \o Repeat(w, n - 1)

RECURSIVE Flatten(_)
Flatten(bs) ==
    IF bs = <<>> THEN <<>>
    ELSE Repeat(bs[1].work, bs[1].copies) \o Flatten(Tail(bs))

(***************************************************************************)
(* str.lower() on the concept display names of the model                   *)
(***************************************************************************)
UpperToLower == ("A" :> "a") @@ ("B" :> "b") @@ ("C" :> "c")

Lower(n) == IF n \in DOMAIN UpperToLower THEN UpperToLower[n] ELSE n

(***************************************************************************)
(* calculate_academic_age                                                  *)
(***************************************************************************)

\* work.get('publication_year')
GetYear(work) ==
    IF work.publication_year = Missing THEN None ELSE work.publication_year

\* work.get('publication_year', 0)
GetYearOrZero(work) ==
    IF work.publication_year = Missing THEN 0 ELSE work.publication_year

\* ValidYear with the lower end of the range included (year >= 1900).
ValidYearInclusive(year, cy) ==
    /\ year # None
    /\ year # 0
    /\ year >= MinYear
    /\ year <= cy

\* line 214: if year and year > 1900 and year <= current_year
ValidYear(year, cy) ==
    /\ year # None
    /\ year # 0
    /\ year > MinYear
    /\ year <= cy

\* PubYears with pub_years kept from one call to the next (a list that is
\* not created afresh by each call).
PubYearsKept(works, cy) ==
    LET kept == previous.fetched.works \o works
        ys == [i \in DOMAIN kept |-> GetYear(kept[i])]
    IN  SortSeq(SelectSeq(ys, LAMBDA y : ValidYear(y, cy)),
                LAMBDA a, b : a < b)

\* lines 211-215 and 228: the valid years, sorted ascending
PubYears(works, cy) ==
    LET ys == [i \in DOMAIN works |-> GetYear(works[i])]
    IN  SortSeq(SelectSeq(ys, LAMBDA y : ValidYear(y, cy)),
                LAMBDA a, b : a < b)

\* lines 232-234: year_counts[year]
YearCount(pub_years, year) == Len(SelectSeq(pub_years, LAMBDA y : y = year))

\* PubsInWindow with the window one year too long (range(year, year + 4)).
PubsInLongWindow(pub_years, year) ==
    SumSeq([k \in 1..(WindowLen + 1) |-> YearCount(pub_years, year + k - 1)])

\* line 239: sum(year_counts.get(y, 0) for y in range(year, year + 3))
PubsInWindow(pub_years, year) ==
    SumSeq([k \in 1..WindowLen |-> YearCount(pub_years, year + k - 1)])

\* SustainedYears with the scan started a window before the earliest year.
SustainedYearsFromBefore(pub_years, cy) ==
    {year \in (pub_years[1] - WindowLen + 1)..cy :
        Len(SelectSeq(pub_years, LAMBDA y : year <= y /\ y < year + WindowLen))
            >= SustainedThreshold}

\* lines 238-242: the years of range(earliest_year, current_year + 1) at which
\* the loop's test succeeds
SustainedYears(pub_years, cy) ==
    {year \in pub_years[1]..cy :
        PubsInWindow(pub_years, year) >= SustainedThreshold}

\* lines 237-242: the loop visits the range in ascending order and breaks at
\* the first success; None when it ends without a break
ScanSustained(pub_years, cy) ==
    LET hits == SustainedYears(pub_years, cy)
    IN  IF hits = {} THEN None ELSE Min(hits)

\* lines 236-246
SustainedStartYear(pub_years, cy) ==
    LET found == ScanSustained(pub_years, cy)
    IN  IF found = None THEN pub_years[1] ELSE found

\* lines 259-269, in tenths
TemporalScore(gap) ==
    IF gap = 0 THEN 10
    ELSE IF gap <= 2 THEN 9
    ELSE IF gap <= 5 THEN 7
    ELSE IF gap <= 10 THEN 5
    ELSE 3

\* EarlyPeriodPubs with the end of the window included (y <= start + 5).
EarlyPeriodPubsInclusive(pub_years, start) ==
    Len(SelectSeq(pub_years, LAMBDA y : start <= y /\ y <= start + EarlyPeriod))

\* line 275
EarlyPeriodPubs(pub_years, start) ==
    Len(SelectSeq(pub_years, LAMBDA y : start <= y /\ y < start + EarlyPeriod))

\* lines 276-283, in tenths
VolumeScore(early_period_pubs) ==
    IF early_period_pubs >= 10 THEN 10
    ELSE IF early_period_pubs >= 5 THEN 8
    ELSE IF early_period_pubs >= 3 THEN 6
    ELSE 4

\* TopAuthorConceptSet without the .lower() call.
TopAuthorConceptSetCased(author_concepts) ==
    LET top == Take(author_concepts, TopAuthorConcepts)
    IN  {top[i] : i \in {j \in DOMAIN top : top[j] # ""}}

\* lines 292-293
TopAuthorConceptSet(author_concepts) ==
    LET top == Take(author_concepts, TopAuthorConcepts)
    IN  {Lower(top[i]) : i \in {j \in DOMAIN top : top[j] # ""}}

\* lines 296-298
EarlyWorks(works, start) ==
    SelectSeq(works, LAMBDA w :
        /\ GetYear(w) # None
        /\ GetYear(w) # 0
        /\ start <= GetYear(w)
        /\ GetYear(w) < start + EarlyPeriod)

\* lines 301-307
EarlyConceptSet(early_works) ==
    LET sample == Take(early_works, EarlyWorksSample)
        namesOf(w) == LET cs == Take(w.concepts, ConceptsPerWork)
                      IN  {Lower(cs[i]) : i \in DOMAIN cs}
    IN  (UNION {namesOf(sample[i]) : i \in DOMAIN sample}) \ {""}

\* line 312: min(overlap / 5, 1.0), in tenths
OverlapScore(overlap) ==
    IF overlap >= OverlapNorm THEN 10 ELSE (10 * overlap) \div OverlapNorm

\* lines 289-318, in tenths
TopicScore(auth, works, start) ==
    IF auth.x_concepts # <<>> /\ Len(works) >= MinWorksForTopic
    THEN LET top_author_concepts == TopAuthorConceptSet(auth.x_concepts)
             early_works == EarlyWorks(works, start)
         IN  IF early_works # <<>>
             THEN LET early_concepts == EarlyConceptSet(early_works)
                  IN  IF early_concepts # {} /\ top_author_concepts # {}
                      THEN OverlapScore(
                               Cardinality(early_concepts \cap top_author_concepts))
                      ELSE 5
             ELSE 5
    ELSE 5

\* lines 323-324.  The sum 0 + t*0.4 + v*0.3 + p*0.3 and its product with 100
\* are evaluated in IEEE-754 binary64 and int() truncates: for these
\* (temporal, volume, topic) triples the binary64 value lies just below the
\* exact integer percentage, and one point is lost.
FloatShortfall ==
    { <<10, 10, 6>>, <<7, 10, 0>>, <<7, 10, 2>>, <<7, 10, 10>>,
      <<7, 6, 4>>, <<7, 6, 6>>, <<7, 4, 5>>, <<7, 4, 6>>, <<7, 4, 8>>,
      <<3, 10, 5>>, <<3, 10, 8>>, <<3, 8, 10>>, <<3, 6, 5>> }

ConfidencePercentage(temporal, volume, topic) ==
    (temporal * 4 + volume * 3 + topic * 3)
        - (IF <<temporal, volume, topic>> \in FloatShortfall THEN 1 ELSE 0)

\* ConfidenceLevel with the High threshold mistyped as 70.
ConfidenceLevelLowBar(confidence_percentage) ==
    IF confidence_percentage >= 70 THEN "High"
    ELSE IF confidence_percentage >= MediumThreshold THEN "Medium"
    ELSE "Low"

\* lines 327-332
ConfidenceLevel(confidence_percentage) ==
    IF confidence_percentage >= HighThreshold THEN "High"
    ELSE IF confidence_percentage >= MediumThreshold THEN "Medium"
    ELSE "Low"

\* lines 335-341 and 350; a note is its kind and the number it prints
Note(kind, n) == [kind |-> kind, n |-> n]

\* Notes with the gap note issued only beyond 10 years.
NotesLateGap(excluded_pubs, gap) ==
    LET notes ==
            (IF excluded_pubs > 0
             THEN <<[kind |-> "excluded", n |-> excluded_pubs]>> ELSE <<>>)
         \o (IF gap > 10 THEN <<[kind |-> "gap", n |-> gap]>> ELSE <<>>)
         \o (IF excluded_pubs = 0 /\ gap = 0
             THEN <<[kind |-> "no_outliers", n |-> 0]>> ELSE <<>>)
    IN  IF notes # <<>> THEN notes
        ELSE <<[kind |-> "based_on_sustained", n |-> 0]>>

Notes(excluded_pubs, gap) ==
    LET notes ==
            (IF excluded_pubs > 0
             THEN <<Note("excluded", excluded_pubs)>> ELSE <<>>)
         \o (IF gap > 5 THEN <<Note("gap", gap)>> ELSE <<>>)
         \o (IF excluded_pubs = 0 /\ gap = 0
             THEN <<Note("no_outliers", 0)>> ELSE <<>>)
    IN  IF notes # <<>> THEN notes ELSE <<Note("based_on_sustained", 0)>>

\* lines 200-208 and 218-226
NoDataResult(note) ==
    [ academic_age |-> None, confidence_score |-> 0,
      confidence_level |-> "N/A", first_pub_year |-> None,
      earliest_pub_year |-> None, excluded_pubs |-> 0,
      notes |-> <<Note(note, 0)>> ]

\* line 255: the list is empty until the scores are appended
NoComponents == [temporal |-> None, volume |-> None, topic |-> None]

\* lines 210-215: some work has a usable year
HasPubYears(resp, cy) ==
    resp.ok /\ resp.works # <<>> /\ PubYears(resp.works, cy) # <<>>

\* lines 255-320, given what fetch_author_works returned
ConfidenceComponentsOf(auth, resp, cy) ==
    IF ~HasPubYears(resp, cy) THEN NoComponents
    ELSE LET pub_years == PubYears(resp.works, cy)
             sustained_start_year == SustainedStartYear(pub_years, cy)
         IN  [ temporal |-> TemporalScore(sustained_start_year - pub_years[1]),
               volume |-> VolumeScore(EarlyPeriodPubs(pub_years,
                                                      sustained_start_year)),
               topic |-> TopicScore(auth, resp.works, sustained_start_year) ]

\* ExcludedPubs with the sustained start year counted in (y <= start).
ExcludedPubsInclusive(pub_years, start) ==
    Len(SelectSeq(pub_years, LAMBDA y : y <= start))

\* line 252: len([y for y in pub_years if y < sustained_start_year])
ExcludedPubs(pub_years, start) ==
    Len(SelectSeq(pub_years, LAMBDA y : y < start))

\* lines 199-351, given what fetch_author_works returned
AcademicAgeOf(auth, resp, cy) ==
    IF ~resp.ok \/ Len(resp.works) = 0
    THEN NoDataResult("no_publications")
    ELSE IF PubYears(resp.works, cy) = <<>>
    THEN NoDataResult("no_valid_years")
    ELSE LET pub_years == PubYears(resp.works, cy)
             earliest_year == pub_years[1]
             sustained_start_year == SustainedStartYear(pub_years, cy)
             excluded_pubs == ExcludedPubs(pub_years, sustained_start_year)
             gap_before_sustained == sustained_start_year - earliest_year
             components == ConfidenceComponentsOf(auth, resp, cy)
             confidence_percentage ==
                 ConfidencePercentage(components.temporal, components.volume,
                                      components.topic)
         IN  [ academic_age |-> cy - sustained_start_year,
               confidence_score |-> confidence_percentage,
               confidence_level |-> ConfidenceLevel(confidence_percentage),
               first_pub_year |-> sustained_start_year,
               earliest_pub_year |-> earliest_year,
               excluded_pubs |-> excluded_pubs,
               notes |-> Notes(excluded_pubs, gap_before_sustained) ]

(***************************************************************************)
(* calculate_author_metrics                                                *)
(***************************************************************************)
\* Python's round() of the quotient num / den (num >= 0, den > 0) to an
\* integer: the nearest one, an exact half going to the even neighbour.  The
\* halves that arise here (x.25 and x.75 before scaling) are exact in binary64.
RoundHalfEven(num, den) ==
    LET q == num \div den
        r == num % den
    IN  IF 2 * r < den THEN q
        ELSE IF 2 * r > den THEN q + 1
        ELSE IF q % 2 = 0 THEN q ELSE q + 1

\* line 376
CitationCounts(works) == [i \in DOMAIN works |-> works[i].cited_by_count]

\* line 380: statistics.median, in tenths
MedianTenths(counts) ==
    LET sorted == SortSeq(counts, LAMBDA a, b : a < b)
        n == Len(sorted)
    IN  IF n % 2 = 1 THEN 10 * sorted[(n + 1) \div 2]
        ELSE 5 * (sorted[n \div 2] + sorted[n \div 2 + 1])

\* lines 383 and 404: round(statistics.mean(...), 1), in tenths
MeanTenths(counts) == RoundHalfEven(10 * SumSeq(counts), Len(counts))

\* TopCount without the max(1, ...).
TopCountUnguarded(n) == n \div TopShare

\* line 388
TopCount(n) == IF n \div TopShare > 1 THEN n \div TopShare ELSE 1

\* lines 386-392 and 405, in tenths of a percent
TopConcentrationTenths(counts) ==
    LET total_citations == SumSeq(counts)
        citation_counts_sorted == SortSeq(counts, LAMBDA a, b : a > b)
        top_10_percent_citations ==
            SumSeq(Take(citation_counts_sorted, TopCount(Len(counts))))
    IN  IF total_citations > 0
        THEN RoundHalfEven(1000 * top_10_percent_citations, total_citations)
        ELSE 0

\* line 396: None >= int raises TypeError
RecentRaises(works) ==
    \E i \in DOMAIN works : GetYearOrZero(works[i]) = None

\* lines 396-397 and 406, in tenths of a percent
RecentActivityTenths(works, cy) ==
    LET recent_works ==
            SelectSeq(works, LAMBDA w : GetYearOrZero(w) >= cy - RecentYears)
    IN  RoundHalfEven(1000 * Len(recent_works), Len(works))

\* lines 400 and 407, in thousandths
EfficiencyThousandths(h_index, works_count) ==
    IF works_count > 0 THEN RoundHalfEven(1000 * h_index, works_count) ELSE 0

MetricsResult(raised, median, mean, top, recent, efficiency) ==
    [ raised |-> raised, median_citations |-> median, mean_citations |-> mean,
      top_10_concentration |-> top, recent_activity_rate |-> recent,
      h_index_efficiency |-> efficiency ]

\* lines 367-373
ZeroMetrics == MetricsResult("", 0, 0, 0, 0, 0)

\* the call ended in an exception: there is no dictionary
MetricsRaised(exception) == MetricsResult(exception, None, None, None, None, None)

MetricsNotComputed == MetricsRaised("not_called")

\* lines 366-408, for works = resp (None when the fetch failed)
AuthorMetricsOf(resp, h_index, works_count, cy) ==
    IF ~resp.ok \/ Len(resp.works) = 0 THEN ZeroMetrics
    ELSE IF RecentRaises(resp.works) THEN MetricsRaised("TypeError")
    ELSE MetricsResult("",
             MedianTenths(CitationCounts(resp.works)),
             MeanTenths(CitationCounts(resp.works)),
             TopConcentrationTenths(CitationCounts(resp.works)),
             RecentActivityTenths(resp.works, cy),
             EfficiencyThousandths(h_index, works_count))

(***************************************************************************)
(* Inputs: the author record, the catalog's answer and the clock.          *)
(* A work list is a sequence of at most MaxBlocks blocks, each block one   *)
(* work repeated; this reaches the lists of 5, 10 and 11 works that the    *)
(* thresholds and slices of the code distinguish.                          *)
(***************************************************************************)
CitedWork(year, concepts, cited_by_count) ==
    [publication_year |-> year, concepts |-> concepts,
     cited_by_count |-> cited_by_count]

Work(year, concepts) == CitedWork(year, concepts, 0)

RECURSIVE WorksOfYears(_)
WorksOfYears(years) ==
    IF years = <<>> THEN <<>>
    ELSE <<Work(years[1], <<>>)>> \o WorksOfYears(Tail(years))

Blocks(works, copies) == [work : works, copies : copies]

BlockSeqs(blocks) == UNION {[1..n -> blocks] : n \in 0..MaxBlocks}

WorkLists(blocks) == {Flatten(bs) : bs \in BlockSeqs(blocks)}

\* fetch_author_works returns None on a request failure, a list otherwise
FetchFailed == [ok |-> FALSE, works |-> <<>>]

Fetched(works) == [ok |-> TRUE, works |-> works]

Author(x_concepts, h_index, works_count) ==
    [x_concepts |-> x_concepts, h_index |-> h_index, works_count |-> works_count]

AuthorChoices ==
    { Author(<<>>, 0, 0),
      Author(<<"">>, 0, 0),
      Author(<<"a", "B", "c", "d", "e", "f", "g">>, 0, 0),
      Author(<<"h", "i", "j", "k", "l", "m", "n", "o", "p", "q", "a">>, 0, 0) }

CurrentYears == {2024}

\* Publication years: absent, both sides of each end of (1900, current_year],
\* and years whose distances fall in each class of the temporal score.
YearChoices == {None, Missing, 1900, 1901, 2010, 2019, 2022, 2024, 2025}

CopyChoices == {1, 2, 5, MaxCopies}

ScenarioA == WorksOfYears(<<2005, 2012, 2013, 2018, 2019, 2020>>)

ScenarioB == WorksOfYears(<<2020, 2021>>)

YearWorkLists ==
    WorkLists(Blocks({Work(y, <<>>) : y \in YearChoices}, CopyChoices))
        \cup {ScenarioA, ScenarioB}

\* Works that carry concepts, at a valid year and at a year after current_year
\* that can still lie within five years of the sustained start; and works
\* without concepts that move the sustained start four and two years back.
ConceptChoices ==
    { <<>>, <<"">>, <<"a">>, <<"b", "C">>, <<"f", "g", "x", "y", "x", "a">>,
      <<"A", "b", "c", "d", "e", "f">> }

ConceptYears == {2022, 2025}

TopicCopyChoices == {1, 4, MaxCopies}

TopicWorkLists ==
    WorkLists(Blocks({Work(y, c) : y \in ConceptYears, c \in ConceptChoices}
                         \cup {Work(None, <<>>), Work(2018, <<>>), Work(2020, <<>>)},
                     TopicCopyChoices))

NotComputed == NoDataResult("not_computed")

\* One answer of the catalog to requests.get: a failure (connection error or
\* error status, a RequestException), or a body with 'results' and, under
\* 'meta', 'count' (Missing when 'meta' or 'count' is not in the body).
RequestFailed == [failed |-> TRUE, results |-> <<>>, count |-> Missing]

Page(results, count) == [failed |-> FALSE, results |-> results, count |-> count]

NoAnswer == Page(<<>>, Missing)

PageWork == Work(2022, <<>>)

\* A count that no call can reach
UnreachedCount == MaxPage * MaxPageLen + 1

CountChoices == {Missing, 0, 1, 3, 5, UnreachedCount}

PageAnswers ==
    {RequestFailed}
        \cup {Page(Repeat(PageWork, n), c) : n \in 0..MaxPageLen, c \in CountChoices}

\* line 158: meta.get('count', 0)
MetaCount(data) == IF data.count = Missing THEN 0 ELSE data.count

FetchCall(position, page, all_works, requests, data) ==
    [ pc |-> position, page |-> page, all_works |-> all_works,
      requests |-> requests, data |-> data ]

\* The specifications that take the answer of the fetch as a whole
NoFetchCall == FetchCall("whole", 1, <<>>, 0, NoAnswer)

\* Before the first search there is no earlier answer and no earlier result.
NoPrevious ==
    [ called |-> FALSE, fetched |-> FetchFailed, age_data |-> NotComputed,
      metrics |-> MetricsNotComputed ]

\* The works of YearWorkLists carry no concepts: an author without concepts
\* and one with concepts.
YearAuthorChoices ==
    { Author(<<>>, 0, 0), Author(<<"a", "B", "c", "d", "e", "f", "g">>, 0, 0) }

Init ==
    /\ author \in YearAuthorChoices
    /\ fetched \in {FetchFailed} \cup {Fetched(ws) : ws \in YearWorkLists}
    /\ current_year \in CurrentYears
    /\ pc = "start"
    /\ age_data = NotComputed
    /\ confidence_components = NoComponents
    /\ metrics = MetricsNotComputed
    /\ previous = NoPrevious
    /\ fetch_call = NoFetchCall

\* display_authors line 528: age_data = calculate_academic_age(author)
CalculateAcademicAge ==
    /\ pc = "start"
    /\ age_data' = AcademicAgeOf(author, fetched, current_year)
    /\ confidence_components' =
           ConfidenceComponentsOf(author, fetched, current_year)
    /\ pc' = "done"
    /\ UNCHANGED <<author, fetched, current_year, metrics, previous, fetch_call>>

Next == CalculateAcademicAge

Spec == Init /\ [][Next]_vars

\* The same call on work lists that carry concepts.
InitTopic ==
    /\ author \in AuthorChoices
    /\ fetched \in {Fetched(ws) : ws \in TopicWorkLists}
    /\ current_year \in CurrentYears
    /\ pc = "start"
    /\ age_data = NotComputed
    /\ confidence_components = NoComponents
    /\ metrics = MetricsNotComputed
    /\ previous = NoPrevious
    /\ fetch_call = NoFetchCall

SpecTopic == InitTopic /\ [][Next]_vars

\* Works that carry citations, dated on both sides of current_year - 5 or not
\* dated at all.
CitationChoices == {0, 1, 3, 100}

MetricsWorkChoices ==
    {CitedWork(2024, <<>>, c) : c \in CitationChoices}
        \cup {CitedWork(y, <<>>, 0) : y \in {None, Missing, 2018, 2019}}

ScenarioCitations ==
    [i \in 1..10 |->
        CitedWork(2024, <<>>, <<5, 3, 50, 2, 1, 0, 100, 4, 6, 7>>[i])]

MetricsWorkLists ==
    WorkLists(Blocks(MetricsWorkChoices, CopyChoices)) \cup {ScenarioCitations}

MetricsAuthorChoices ==
    { Author(<<>>, 0, 0), Author(<<>>, 2, 0), Author(<<>>, 2, 3),
      Author(<<>>, 8, 10) }

InitMetrics ==
    /\ author \in MetricsAuthorChoices
    /\ fetched \in {FetchFailed} \cup {Fetched(ws) : ws \in MetricsWorkLists}
    /\ current_year \in CurrentYears
    /\ pc = "start"
    /\ age_data = NotComputed
    /\ confidence_components = NoComponents
    /\ metrics = MetricsNotComputed
    /\ previous = NoPrevious
    /\ fetch_call = NoFetchCall

\* display_authors line 578:
\* metrics = calculate_author_metrics(works, h_index, works_count)
CalculateAuthorMetrics ==
    /\ pc = "start"
    /\ metrics' = AuthorMetricsOf(fetched, author.h_index, author.works_count,
                                  current_year)
    /\ pc' = "done"
    /\ UNCHANGED <<author, fetched, current_year, age_data,
                   confidence_components, previous, fetch_call>>

NextMetrics == CalculateAuthorMetrics

SpecMetrics == InitMetrics /\ [][NextMetrics]_vars

\* Two searches for the same author.  Nothing is cached: each search calls
\* calculate_academic_age(author), which fetches the author's works itself
\* (line 197), or fetch_author_works and calculate_author_metrics (lines
\* 577-578); the catalog, or the network, may answer the second fetch
\* differently from the first.
RerunWorkLists ==
    WorkLists(Blocks({Work(2019, <<>>), Work(2022, <<"a">>)}, {1, 5}))
        \cup {ScenarioA, ScenarioB}

RerunAnswers == {FetchFailed} \cup {Fetched(ws) : ws \in RerunWorkLists}

RerunAuthorChoices ==
    { Author(<<>>, 0, 0), Author(<<"a", "B", "c", "d", "e", "f", "g">>, 2, 3) }

InitRerun ==
    /\ author \in RerunAuthorChoices
    /\ fetched \in RerunAnswers
    /\ current_year \in CurrentYears
    /\ pc = "start"
    /\ age_data = NotComputed
    /\ confidence_components = NoComponents
    /\ metrics = MetricsNotComputed
    /\ previous = NoPrevious
    /\ fetch_call = NoFetchCall

\* main lines 816-829: the search button is pressed again and the script
\* runs display_authors anew; the locals of the earlier run are gone.
Rerun ==
    /\ pc = "done"
    /\ ~previous.called
    /\ previous' = [ called |-> TRUE, fetched |-> fetched,
                     age_data |-> age_data, metrics |-> metrics ]
    /\ fetched' \in RerunAnswers
    /\ pc' = "start"
    /\ age_data' = NotComputed
    /\ confidence_components' = NoComponents
    /\ metrics' = MetricsNotComputed
    /\ UNCHANGED <<author, current_year, fetch_call>>

NextRerun == CalculateAcademicAge \/ CalculateAuthorMetrics \/ Rerun

SpecRerun == InitRerun /\ [][NextRerun]_vars

(***************************************************************************)
(* fetch_author_works, one request at a time                               *)
(***************************************************************************)
\* lines 140-141
InitFetch ==
    /\ author \in {Author(<<>>, 0, 0)}
    /\ fetched = FetchFailed
    /\ current_year \in CurrentYears
    /\ pc = "start"
    /\ age_data = NotComputed
    /\ confidence_components = NoComponents
    /\ metrics = MetricsNotComputed
    /\ previous = NoPrevious
    /\ fetch_call = FetchCall("request", 1, <<>>, 0, NoAnswer)

\* PageLimitReached with the limit one page further (page > 51).
PageLimitLate(page) == page > MaxPage + 1

\* line 164: if page > 50
PageLimitReached(page) == page > MaxPage

\* line 167: return all_works if all_works else []
ReturnWorks(all_works, data) ==
    /\ fetch_call' = FetchCall("returned", fetch_call.page, all_works,
                               fetch_call.requests + 1, data)
    /\ fetched' = Fetched(all_works)

\* lines 146-147 and 168-170: the request raises, the call returns None
RequestFails ==
    /\ fetch_call.pc = "request"
    /\ fetch_call' = FetchCall("returned", fetch_call.page, fetch_call.all_works,
                               fetch_call.requests + 1, RequestFailed)
    /\ fetched' = FetchFailed
    /\ UNCHANGED <<author, current_year, pc, age_data, confidence_components,
                   metrics, previous>>

\* lines 150-152: if not results: break
EmptyPage ==
    /\ fetch_call.pc = "request"
    /\ \E data \in PageAnswers :
          /\ ~data.failed
          /\ data.results = <<>>
          /\ ReturnWorks(fetch_call.all_works, data)
    /\ UNCHANGED <<author, current_year, pc, age_data, confidence_components,
                   metrics, previous>>

\* lines 154-159: if len(all_works) >= meta.get('count', 0): break
CountReached ==
    /\ fetch_call.pc = "request"
    /\ \E data \in PageAnswers :
          /\ ~data.failed
          /\ data.results # <<>>
          /\ Len(fetch_call.all_works \o data.results) >= MetaCount(data)
          /\ ReturnWorks(fetch_call.all_works \o data.results, data)
    /\ UNCHANGED <<author, current_year, pc, age_data, confidence_components,
                   metrics, previous>>

\* lines 161-165: page += 1; if page > 50: break
PageLimit ==
    /\ fetch_call.pc = "request"
    /\ \E data \in PageAnswers :
          /\ ~data.failed
          /\ data.results # <<>>
          /\ Len(fetch_call.all_works \o data.results) < MetaCount(data)
          /\ PageLimitReached(fetch_call.page + 1)
          /\ fetch_call' = FetchCall("returned", fetch_call.page + 1,
                                     fetch_call.all_works \o data.results,
                                     fetch_call.requests + 1, data)
          /\ fetched' = Fetched(fetch_call.all_works \o data.results)
    /\ UNCHANGED <<author, current_year, pc, age_data, confidence_components,
                   metrics, previous>>

\* lines 161-165 and 144: the loop goes on to the next page
NextPage ==
    /\ fetch_call.pc = "request"
    /\ \E data \in PageAnswers :
          /\ ~data.failed
          /\ data.results # <<>>
          /\ Len(fetch_call.all_works \o data.results) < MetaCount(data)
          /\ ~PageLimitReached(fetch_call.page + 1)
          /\ fetch_call' = FetchCall("request", fetch_call.page + 1,
                                     fetch_call.all_works \o data.results,
                                     fetch_call.requests + 1, data)
    /\ UNCHANGED <<author, fetched, current_year, pc, age_data,
                   confidence_components, metrics, previous>>

NextFetch ==
    RequestFails \/ EmptyPage \/ CountReached \/ PageLimit \/ NextPage

\* The loop runs to its end once entered: each iteration is taken.
SpecFetch == InitFetch /\ [][NextFetch]_vars /\ WF_vars(NextFetch)

(***************************************************************************)
(* Vocabulary of the properties, stated on the inputs and the result       *)
(***************************************************************************)
Done == pc = "done"

\* The positions of the fetched works whose year lies in (1900, current_year]
ValidPositions ==
    IF ~fetched.ok THEN {}
    ELSE {i \in DOMAIN fetched.works :
            /\ fetched.works[i].publication_year > 1900
            /\ fetched.works[i].publication_year <= current_year}

HasData == ValidPositions # {}

EarliestValidYear ==
    Min({fetched.works[i].publication_year : i \in ValidPositions})

\* The number of valid publications dated in lo..hi
PubsBetween(lo, hi) ==
    Cardinality({i \in ValidPositions :
                    /\ lo <= fetched.works[i].publication_year
                    /\ fetched.works[i].publication_year <= hi})

Gap == age_data.first_pub_year - age_data.earliest_pub_year

NoteKinds == {age_data.notes[i].kind : i \in DOMAIN age_data.notes}

HasNote(kind, n) ==
    \E i \in DOMAIN age_data.notes : age_data.notes[i] = [kind |-> kind, n |-> n]

(***************************************************************************)
(* C1: for every work list with at least one publication year in           *)
(* (1900, current_year], the sustained start year is at least the earliest *)
(* year and at most current_year, and academic_age is non-negative.        *)
(***************************************************************************)
C1_StartWithinRange ==
    (Done /\ HasData) =>
        /\ age_data.earliest_pub_year = EarliestValidYear
        /\ age_data.first_pub_year >= age_data.earliest_pub_year
        /\ age_data.first_pub_year <= current_year
        /\ age_data.academic_age >= 0
        /\ age_data.academic_age = current_year - age_data.first_pub_year

\* A result whose sustained start lies after the earliest year, found by the
\* scan two years before current_year.
C1_Witness ==
    /\ Done
    /\ HasData
    /\ age_data.first_pub_year > age_data.earliest_pub_year
    /\ age_data.academic_age = 2

(***************************************************************************)
(* C2: confidence_score is an integer in 0..100 and confidence_level is a  *)
(* function of confidence_score alone: High from 80, Medium from 60, Low   *)
(* below; score 0 is the no-data result (N/A), which no result with data   *)
(* shares, so no two results with one score differ in level.               *)
(***************************************************************************)
LevelOfScore(score) ==
    IF score = 0 THEN "N/A"
    ELSE IF score >= 80 THEN "High"
    ELSE IF score >= 60 THEN "Medium"
    ELSE "Low"

C3_NoDataResult ==
    Done =>
        /\ (~HasData =>
               /\ age_data.academic_age = None
               /\ age_data.confidence_score = 0
               /\ age_data.confidence_level = "N/A"
               /\ age_data.first_pub_year = None
               /\ age_data.earliest_pub_year = None
               /\ age_data.excluded_pubs = 0
               /\ Len(age_data.notes) = 1
               /\ NoteKinds \subseteq {"no_publications", "no_valid_years"})
        /\ (age_data.academic_age = None => ~HasData)

\* Works were fetched, none with a usable year: year 1900 is among them.
C3_Witness ==
    /\ Done
    /\ fetched.ok
    /\ \E i \in DOMAIN fetched.works : fetched.works[i].publication_year = 1900
    /\ ~HasData
    /\ NoteKinds = {"no_valid_years"}

(***************************************************************************)
(* C4: Scenario A.  Years 2005, 2012, 2013, 2018, 2019, 2020, current year *)
(* 2024, no usable concept data: sustained start 2012, academic age 12,    *)
(* one excluded publication, confidence 47, Low.                           *)
(***************************************************************************)
C4_ScenarioA ==
    (Done /\ fetched.ok /\ fetched.works = ScenarioA /\ current_year = 2024) =>
        /\ age_data.first_pub_year = 2012
        /\ age_data.academic_age = 12
        /\ age_data.excluded_pubs = 1
        /\ age_data.confidence_score = 47
        /\ age_data.confidence_level = "Low"

(***************************************************************************)
(* C5: the sustained start year is the smallest year y in                  *)
(* earliest_year..current_year with at least 2 valid publications in       *)
(* y..y+2, and earliest_year when there is none.  When the window at       *)
(* earliest_year holds 2 publications, the start is earliest_year, nothing *)
(* is excluded and the temporal component is 1.0 (Scenario B: 2020, 2021   *)
(* at current year 2024 gives 2020 and academic age 4).                    *)
(***************************************************************************)
QualifyingYears ==
    {y \in EarliestValidYear..current_year : PubsBetween(y, y + 2) >= 2}

C6_FirstPubYearHasPublication ==
    (Done /\ age_data.first_pub_year # None) =>
        PubsBetween(age_data.first_pub_year, age_data.first_pub_year) >= 1

(***************************************************************************)
(* C7: works whose year is absent or outside (1900, current_year] do not   *)
(* affect the estimator: the result equals the result for the same list    *)
(* with those works removed.                                               *)
(***************************************************************************)
ValidWorksOnly ==
    [ok |-> fetched.ok,
     works |-> SelectSeq(fetched.works, LAMBDA w :
                   w.publication_year > 1900 /\ w.publication_year <= current_year)]

SameEstimate(r1, r2) ==
    /\ r1.academic_age = r2.academic_age
    /\ r1.first_pub_year = r2.first_pub_year
    /\ r1.earliest_pub_year = r2.earliest_pub_year
    /\ r1.excluded_pubs = r2.excluded_pubs
    /\ r1.confidence_score = r2.confidence_score
    /\ r1.confidence_level = r2.confidence_level

C7_InvalidWorksIgnored ==
    Done => SameEstimate(age_data,
                         AcademicAgeOf(author, ValidWorksOnly, current_year))

(***************************************************************************)
(* C8: the topic component is the neutral 0.5 exactly when the profile's   *)
(* concepts are empty, or there are fewer than 5 works, or one of the two  *)
(* label sets is empty; otherwise it is min(n / 5, 1.0), n the size of the *)
(* case-insensitive intersection of the author's first 10 concept names    *)
(* with the first 5 concept names of each of the first 10 works dated in   *)
(* [sustained start, sustained start + 5).                                 *)
(***************************************************************************)
\* The lower-cased names among the author's first 10 concepts
AuthorLabels ==
    {Lower(author.x_concepts[i]) :
        i \in {j \in DOMAIN author.x_concepts : j <= 10}} \ {""}

\* Positions of the works dated in [sustained start, sustained start + 5)
EarlyPositions ==
    {i \in DOMAIN fetched.works :
        /\ fetched.works[i].publication_year >= age_data.first_pub_year
        /\ fetched.works[i].publication_year < age_data.first_pub_year + 5}

\* The first 10 of them
SampledPositions ==
    {i \in EarlyPositions : Cardinality({j \in EarlyPositions : j <= i}) <= 10}

\* The lower-cased names among the first 5 concepts of each sampled work
EarlyLabels ==
    UNION {{Lower(fetched.works[i].concepts[k]) :
               k \in {n \in DOMAIN fetched.works[i].concepts : n <= 5}} :
           i \in SampledPositions} \ {""}

TopicEligible == author.x_concepts # <<>> /\ Len(fetched.works) >= 5

\* min(n / 5, 1.0) in tenths
MinOfFifths(n) == IF 2 * n > 10 THEN 10 ELSE 2 * n

C8_TopicComponent ==
    (Done /\ HasData) =>
        LET usable == TopicEligible /\ AuthorLabels # {} /\ EarlyLabels # {}
        IN  /\ (confidence_components.topic = 5 <=> ~usable)
            /\ (usable => confidence_components.topic =
                              MinOfFifths(Cardinality(AuthorLabels \cap EarlyLabels)))

\* An eligible author with named concepts whose early works name no concept:
\* the component is neutral.
C8_Witness ==
    /\ Done
    /\ HasData
    /\ TopicEligible
    /\ AuthorLabels # {}
    /\ EarlyLabels = {}
    /\ confidence_components.topic = 5

\* C8 as first stated: neutral exactly when the profile's concepts are empty
\* or there are fewer than 5 works, min(n / 5, 1.0) in every other case.
C8_TopicAsStated ==
    (Done /\ HasData) =>
        /\ (confidence_components.topic = 5 <=> ~TopicEligible)
        /\ (TopicEligible => confidence_components.topic =
                                 MinOfFifths(Cardinality(AuthorLabels \cap EarlyLabels)))

(***************************************************************************)
(* C9: the notes of a computed result state the excluded count whenever it *)
(* is positive, the gap whenever it exceeds 5 years, and that no outliers  *)
(* were detected whenever the excluded count is 0 and the gap at most 5.   *)
(***************************************************************************)
C9_NotesStateOutliers ==
    (Done /\ HasData) =>
        /\ (age_data.excluded_pubs > 0 => HasNote("excluded", age_data.excluded_pubs))
        /\ (Gap > 5 => HasNote("gap", Gap))
        /\ ((age_data.excluded_pubs = 0 /\ Gap <= 5) => HasNote("no_outliers", 0))

\* A result with an excluded publication and a gap between 6 and 10 years.
C9_Witness ==
    /\ Done
    /\ HasData
    /\ age_data.excluded_pubs > 0
    /\ Gap > 5
    /\ Gap <= 10
    /\ Len(age_data.notes) = 2

(***************************************************************************)
(* C10: for a non-empty list of n works with positive total citations,     *)
(* the top-decile concentration is 100 * (sum of the k largest citation    *)
(* counts) / (sum of all), k = max(1, floor(n / 10)), rounded to one       *)
(* decimal, and lies in [0, 100]; counts 5,3,50,2,1,0,100,4,6,7 give       *)
(* k = 1, 56.2, mean 17.8 and median 4.5.                                  *)
(***************************************************************************)
Counts == [i \in DOMAIN fetched.works |-> fetched.works[i].cited_by_count]

TotalCitations == SumSeq(Counts)

DecileSize ==
    IF Len(Counts) \div 10 >= 1 THEN Len(Counts) \div 10 ELSE 1

\* The sums of k largest counts: every count above a cut t, and as many
\* counts equal to t as it takes to make k.
SumsOfLargest(k) ==
    LET above(t) == SelectSeq(Counts, LAMBDA c : c > t)
        atLeast(t) == SelectSeq(Counts, LAMBDA c : c >= t)
        cuts == {t \in {Counts[i] : i \in DOMAIN Counts} :
                    Len(above(t)) <= k /\ k <= Len(atLeast(t))}
    IN  {SumSeq(above(t)) + (k - Len(above(t))) * t : t \in cuts}

\* value (in tenths) is num / den rounded to the nearest tenth
IsRoundedTenths(value, num, den) ==
    /\ 2 * (value * den - 10 * num) <= den
    /\ 2 * (10 * num - value * den) <= den

MetricsReturned == Done /\ metrics.raised = ""

RecentPositions ==
    {i \in DOMAIN fetched.works :
        fetched.works[i].publication_year >= current_year - 5}

C11_RecentActivity ==
    (Done /\ fetched.ok /\ fetched.works # <<>>) =>
        /\ metrics.raised = ""
        /\ IsRoundedTenths(metrics.recent_activity_rate,
                           100 * Cardinality(RecentPositions),
                           Len(fetched.works))

(***************************************************************************)
(* C12: calculate_author_metrics never divides by zero and returns zero    *)
(* for each degenerate input: no work list, or an empty one, gives five    *)
(* zeros whatever h_index and works_count are; a citation total of 0 gives *)
(* a top-decile concentration of 0; works_count = 0 gives an efficiency    *)
(* of 0.                                                                   *)
(***************************************************************************)
NoWorks == ~fetched.ok \/ fetched.works = <<>>

C12_DegenerateInputsYieldZero ==
    Done =>
        /\ metrics.raised # "ZeroDivisionError"
        /\ (NoWorks =>
               /\ metrics.raised = ""
               /\ metrics.median_citations = 0
               /\ metrics.mean_citations = 0
               /\ metrics.top_10_concentration = 0
               /\ metrics.recent_activity_rate = 0
               /\ metrics.h_index_efficiency = 0)
        /\ ((~NoWorks /\ TotalCitations = 0) =>
               metrics.top_10_concentration = 0)
        /\ ((~NoWorks /\ author.works_count = 0) =>
               metrics.h_index_efficiency = 0)

(***************************************************************************)
(* C13: a second run for the same author, in the same year, returns what   *)
(* the first run returned whenever the fetch answers the second run as it  *)
(* answered the first: calculate_author_metrics depends on its arguments   *)
(* and the current year only; calculate_academic_age depends on the author *)
(* profile, the current year and the answer of the fetch that it performs  *)
(* itself, and on nothing kept from an earlier run.                        *)
(***************************************************************************)
AgeComputedTwice ==
    /\ Done
    /\ previous.called
    /\ age_data # NotComputed
    /\ previous.age_data # NotComputed

MetricsComputedTwice ==
    /\ Done
    /\ previous.called
    /\ metrics # MetricsNotComputed
    /\ previous.metrics # MetricsNotComputed

EarlyWindowCount ==
    PubsBetween(age_data.first_pub_year, age_data.first_pub_year + 4)

\* in tenths
VolumeOfCount(n) ==
    IF n >= 10 THEN 10 ELSE IF n >= 5 THEN 8 ELSE IF n >= 3 THEN 6 ELSE 4

\* The valid years of the early window
EarlyWindowYears ==
    {y \in age_data.first_pub_year..(age_data.first_pub_year + 4) :
        y > 1900 /\ y <= current_year}

\* The valid years of the fetched list with one more publication dated y
PubYearsWith(y) ==
    PubYears(fetched.works \o <<Work(y, <<>>)>>, current_year)

\* The volume component of that list, when its sustained start is the one
\* of the fetched list, and None when the start has moved
VolumeWith(y) ==
    LET pub_years == PubYearsWith(y)
        start == SustainedStartYear(pub_years, current_year)
    IN  IF start = age_data.first_pub_year
        THEN VolumeScore(EarlyPeriodPubs(pub_years, start))
        ELSE None

C14_VolumeMonotone ==
    (Done /\ HasData) =>
        /\ confidence_components.volume = VolumeOfCount(EarlyWindowCount)
        /\ \A n \in 0..EarlyWindowCount : VolumeOfCount(n) <= VolumeOfCount(n + 1)
        /\ \A y \in EarlyWindowYears :
              LET volume == VolumeWith(y)
              IN  volume # None => volume >= confidence_components.volume

\* Four publications in the window give 0.6; a fifth, which leaves the
\* sustained start where it is, gives 0.8.
C14_Witness ==
    /\ Done
    /\ HasData
    /\ EarlyWindowCount = 4
    /\ confidence_components.volume = 6
    /\ \E y \in EarlyWindowYears : VolumeWith(y) = 8

(***************************************************************************)
(* C15: fetch_author_works always terminates and issues at most 50 page    *)
(* requests, whatever the catalog answers: it stops at the first empty     *)
(* page, as soon as the number of accumulated works reaches the reported   *)
(* count, or after page 50; when a request fails, at any page, it returns  *)
(* None and the works accumulated so far are lost.                         *)
(***************************************************************************)
FetchRunning == fetch_call.pc = "request"

FetchReturned == fetch_call.pc = "returned"

\* The last answer was a non-empty page that left the count unreached.
LastPageGoesOn ==
    /\ ~fetch_call.data.failed
    /\ fetch_call.data.results # <<>>
    /\ Len(fetch_call.all_works) < MetaCount(fetch_call.data)

FetchStopsAsStated ==
    /\ fetch_call.requests <= 50
    /\ FetchRunning =>
          /\ fetch_call.page = fetch_call.requests + 1
          /\ fetch_call.page <= 50
          /\ Len(fetch_call.all_works) >= fetch_call.requests
          /\ (fetch_call.requests > 0 => LastPageGoesOn)
    /\ FetchReturned =>
          /\ fetch_call.requests >= 1
          /\ (fetch_call.data.failed => fetched = FetchFailed)
          /\ (~fetch_call.data.failed =>
                 /\ fetched = Fetched(fetch_call.all_works)
                 /\ (LastPageGoesOn => fetch_call.requests = 50))

C15_FetchTerminates == []FetchStopsAsStated /\ <>FetchReturned

\* The catalog kept answering non-empty pages below the count: the call made
\* its 50th request and returned what it had.
C15_Witness ==
    /\ FetchReturned
    /\ fetch_call.requests = 50
    /\ LastPageGoesOn
    /\ fetched.ok
    /\ Len(fetched.works) >= 50

(***************************************************************************)
(* C16: in every result with data, excluded_pubs is the number of valid    *)
(* publications dated before the sustained start, and it is 0 exactly when *)
(* the sustained start is the earliest year (gap 0); so the notes are      *)
(* never empty and never the fallback text 'Based on sustained publication *)
(* activity'.                                                              *)
(***************************************************************************)
C16_ExcludedIffGap ==
    (Done /\ HasData) =>
        /\ age_data.excluded_pubs = PubsBetween(1901, age_data.first_pub_year - 1)
        /\ (age_data.excluded_pubs = 0 <=> Gap = 0)
        /\ age_data.notes # <<>>
        /\ "based_on_sustained" \notin NoteKinds

\* No window holds two publications: the start falls back to the earliest
\* year, nothing is excluded and the note says that no outlier was found.
C16_Witness ==
    /\ Done
    /\ HasData
    /\ QualifyingYears = {}
    /\ age_data.excluded_pubs = 0
    /\ Gap = 0
    /\ age_data.notes = <<Note("no_outliers", 0)>>

====
